---------------------------- MODULE Spec2Model ----------------------------
(***************************************************************************)
(* A model of the etherea CHIP-8 interpreter (src/src/lib.rs): the machine *)
(* state of `Interpreter`, the opcode handlers reached from                *)
(* `Interpreter::execute`, the 60Hz timer loop, the key channel, and the   *)
(* three contexts started by `run`.                                        *)
(***************************************************************************)
EXTENDS Integers, Sequences, FiniteSets, TLC

VARIABLES
    rom,            \* the program bytes handed to run() / load_rom
    traceOn,        \* whether the log level enables trace! (cli.rs LogLevel)
    ips,            \* instructions per second handed to run()
    writerPriority, \* platform policy of std::sync::RwLock: a queued writer blocks new readers
    callerPc,       \* position of the thread that called run()
    execPc,         \* position of the fetch/decode/execute thread
    timerPc,        \* position of the 60Hz timer thread
    intr,           \* Interpreter: i, pc, stack, memory, registers, display
    inst,           \* the nibbles of the instruction being executed
    timers,         \* Timers behind Arc<RwLock<..>>: delay, sound
    timerReaders,   \* read guards on the timers lock currently held (by the execute thread)
    chan,           \* mpsc channel contents: key codes sent and not yet received
    txAlive,        \* the channel's Sender still exists
    sentLog,        \* history: every key code sent, in send order
    recvLog,        \* history: every key code received, in receive order
    lastSet,        \* history: value written by the latest set-timer, per counter
    ticks,          \* history: timer ticks completed since that write, per counter, counted up to the value written
    setToggle,      \* history: flips on every executed set-timer instruction
    callLog,        \* history: for each call not yet returned from, its site and the stack before it
    trail,          \* history: the handlers dispatched one at a time, each with its nibbles and the machine before it; for the decoder alone, the word decoded
    intrLock,       \* the RwLock around the Interpreter: "free" or "write" (held by the execute thread)
    exitCause       \* why the process exited: "none" while it runs

vars == <<rom, ips, traceOn, writerPriority, callerPc, execPc, timerPc, intr, inst,
          timers, timerReaders, chan, txAlive, sentLog, recvLog, lastSet, ticks,
          setToggle, callLog, trail, intrLock, exitCause>>

---------------------------------------------------------------------------
(* Program constants *)

MEMORY_SIZE == 4096
MEMORY_OFFSET == 512
REGISTER_COUNT == 16
WIDTH == 64
HEIGHT == 32
FONT_START == 80
FONT_END == 159
DEFAULT_IPS == 700

(* Bounds of the model *)

MaxSends == 2    \* key events the input context sends in one run

Byte == 0..255
Nibble == 0..15

Max(a, b) == IF a >= b THEN a ELSE b

---------------------------------------------------------------------------
(* mod bits, and u8 arithmetic *)

\* bits::set(n, bits): whether bit n (from the least significant) is set
set_bit(n, b) == (b \div (2 ^ n)) % 2 = 1

\* one bit of a byte, as 0 or 1
bit(n, b) == (b \div (2 ^ n)) % 2

\* u8 | u8, u8 & u8, u8 ^ u8, bit by bit
or_bit(x, y) == IF x + y > 0 THEN 1 ELSE 0
and_bit(x, y) == x * y
xor_bit(x, y) == (x + y) % 2

bit_or(a, b) ==
    or_bit(bit(0, a), bit(0, b)) + 2 * or_bit(bit(1, a), bit(1, b))
    + 4 * or_bit(bit(2, a), bit(2, b)) + 8 * or_bit(bit(3, a), bit(3, b))
    + 16 * or_bit(bit(4, a), bit(4, b)) + 32 * or_bit(bit(5, a), bit(5, b))
    + 64 * or_bit(bit(6, a), bit(6, b)) + 128 * or_bit(bit(7, a), bit(7, b))

bit_and(a, b) ==
    and_bit(bit(0, a), bit(0, b)) + 2 * and_bit(bit(1, a), bit(1, b))
    + 4 * and_bit(bit(2, a), bit(2, b)) + 8 * and_bit(bit(3, a), bit(3, b))
    + 16 * and_bit(bit(4, a), bit(4, b)) + 32 * and_bit(bit(5, a), bit(5, b))
    + 64 * and_bit(bit(6, a), bit(6, b)) + 128 * and_bit(bit(7, a), bit(7, b))

bit_xor(a, b) ==
    xor_bit(bit(0, a), bit(0, b)) + 2 * xor_bit(bit(1, a), bit(1, b))
    + 4 * xor_bit(bit(2, a), bit(2, b)) + 8 * xor_bit(bit(3, a), bit(3, b))
    + 16 * xor_bit(bit(4, a), bit(4, b)) + 32 * xor_bit(bit(5, a), bit(5, b))
    + 64 * xor_bit(bit(6, a), bit(6, b)) + 128 * xor_bit(bit(7, a), bit(7, b))

\* bits::recombine(upper, lower): (upper << 4) | lower on u8
recombine(upper, lower) == bit_or((upper * 16) % 256, lower)

\* digit(i, n): the decimal digit at index i of n, from the least significant
digit(i, n) == (n \div (10 ^ i)) % 10

\* a decoder yielding each byte's low nibble before its high nibble
Decode_low_first(word) ==
    LET hi == word \div 256
        lo == word % 256
    IN  << bit_and(hi, 15), bit_and(hi, 240) \div 16,
           bit_and(lo, 15), bit_and(lo, 240) \div 16 >>

\* impl From<u16> for Instruction: the four nibbles of the two big-endian bytes
Decode(word) ==
    LET hi == word \div 256
        lo == word % 256
    IN  << bit_and(hi, 240) \div 16, bit_and(hi, 15),
           bit_and(lo, 240) \div 16, bit_and(lo, 15) >>

---------------------------------------------------------------------------
(* mod font and mod input *)

\* font::FONT: 16 glyphs of 5 bytes, installed at font::MEMORY_RANGE = 0x50..=0x9F
FONT ==
    << 240, 144, 144, 144, 240,   32,  96,  32,  32, 112,
       240,  16, 240, 128, 240,  240,  16, 240,  16, 240,
       144, 144, 240,  16,  16,  240, 128, 240,  16, 240,
       240, 128, 240, 144, 240,  240,  16,  32,  64,  64,
       240, 144, 240, 144, 240,  240, 144, 240,  16, 240,
       240, 144, 240, 144, 144,  224, 144, 224, 144, 224,
       240, 128, 128, 128, 240,  224, 144, 144, 144, 224,
       240, 128, 240, 128, 240,  240, 128, 240, 128, 128 >>

\* input::KEYMAP: QWERTY key codes to CHIP-8 keypad values
KEYMAP ==
    [ Key1 |-> 1, Key2 |-> 2, Key3 |-> 3, Key4 |-> 12,
      Q |-> 4, W |-> 5, E |-> 6, R |-> 13,
      A |-> 7, S |-> 8, D |-> 9, F |-> 14,
      Z |-> 10, X |-> 0, C |-> 11, V |-> 15 ]

KeyCodes == DOMAIN KEYMAP

---------------------------------------------------------------------------
(* struct Interpreter, Display, Timers *)

\* Display::new: every scratch pixel 0; a pixel is kept as the index
\* y * WIDTH + x of a quad holding FF FF FF FF, every other quad holds 0
NewDisplay == [scratch_pixels |-> {}, pixels |-> {}]

\* Timers::default
NewTimers == [delay |-> 0, sound |-> 0]

\* Interpreter::new, then attach_display: every field zero, the display attached
NewInterpreter ==
    [ i |-> 0,
      pc |-> 0,
      stack |-> << >>,
      memory |-> [a \in 0..(MEMORY_SIZE - 1) |-> 0],
      registers |-> [r \in 0..(REGISTER_COUNT - 1) |-> 0],
      display |-> NewDisplay ]

\* the slice MEMORY_OFFSET..MEMORY_OFFSET + rom.len() lies inside memory
RomFits(bytes) == MEMORY_OFFSET + Len(bytes) <= MEMORY_SIZE

\* load_rom without `self.memory = Memory::default()`
load_rom_keep_memory(s, bytes) ==
    [ s EXCEPT
        !.i = 0,
        !.pc = MEMORY_OFFSET,
        !.stack = << >>,
        !.memory = [a \in 0..(MEMORY_SIZE - 1) |->
                      IF a >= MEMORY_OFFSET /\ a < MEMORY_OFFSET + Len(bytes)
                      THEN bytes[a - MEMORY_OFFSET + 1]
                      ELSE IF a >= FONT_START /\ a <= FONT_END
                      THEN FONT[a - FONT_START + 1]
                      ELSE @[a]],
        !.registers = [r \in 0..(REGISTER_COUNT - 1) |-> 0] ]

\* Interpreter::load_rom on the interpreter s, for a ROM that fits: the
\* display stays attached as it is
load_rom(s, bytes) ==
    [ s EXCEPT
        !.i = 0,
        !.pc = MEMORY_OFFSET,
        !.stack = << >>,
        !.memory = [a \in 0..(MEMORY_SIZE - 1) |->
                      IF a >= MEMORY_OFFSET /\ a < MEMORY_OFFSET + Len(bytes)
                      THEN bytes[a - MEMORY_OFFSET + 1]
                      ELSE IF a >= FONT_START /\ a <= FONT_END
                      THEN FONT[a - FONT_START + 1]
                      ELSE 0],
        !.registers = [r \in 0..(REGISTER_COUNT - 1) |-> 0] ]

\* a handler's outcome: the machine after it, and whether it panicked
\* (the panic hook installed in Interpreter::main exits the process)
Ok(s) == [fatal |-> FALSE, intr |-> s]
Panic(s) == [fatal |-> TRUE, intr |-> s]

WithReg(s, x, v) == [s EXCEPT !.registers[x] = v]

\* update without the `> 0` tests, on u8 without overflow checks
update_wrapping(t) ==
    [ delay |-> (t.delay - 1) % 256, sound |-> (t.sound - 1) % 256 ]

\* update decrementing twice in one tick
update_twice(t) ==
    [ delay |-> Max(0, t.delay - 2), sound |-> Max(0, t.sound - 2) ]

\* Timers::update
update(t) ==
    [ delay |-> IF t.delay > 0 THEN t.delay - 1 ELSE t.delay,
      sound |-> IF t.sound > 0 THEN t.sound - 1 ELSE t.sound ]

\* Display::draw and Display::render: the scratch pixels are copied to the frame
render(d) == [d EXCEPT !.pixels = d.scratch_pixels]

\* clear without its render: only the scratch grid is reset
clear_scratch_only(d) == [d EXCEPT !.scratch_pixels = {}]

\* Display::clear
clear(d) == render([d EXCEPT !.scratch_pixels = {}])

\* flip that only ever turns a pixel on
flip_overwrite(d, x, y) ==
    LET idx == y * WIDTH + x
    IN  [display |-> [d EXCEPT !.scratch_pixels = @ \cup {idx}], off |-> FALSE]

\* Display::flip with rgba = FF FF FF FF: the display after it and the returned bool
flip(d, x, y) ==
    LET idx == y * WIDTH + x
    IN  IF idx \in d.scratch_pixels
        THEN [display |-> [d EXCEPT !.scratch_pixels = @ \ {idx}], off |-> TRUE]
        ELSE [display |-> [d EXCEPT !.scratch_pixels = @ \cup {idx}], off |-> FALSE]

---------------------------------------------------------------------------
(* The opcode handlers of impl Interpreter.  Each takes the machine s after *)
(* fetch (pc already advanced) and yields Ok(machine) or Panic(machine).    *)

\* Interpreter::fetch: the big-endian word at pc; indexing past memory panics
fetch(s) ==
    IF s.pc + 1 >= MEMORY_SIZE
    THEN [fatal |-> TRUE, intr |-> s, word |-> 0]
    ELSE [fatal |-> FALSE, intr |-> [s EXCEPT !.pc = @ + 2],
          word |-> s.memory[s.pc] * 256 + s.memory[s.pc + 1]]

\* call pushing the address of the call itself
call_subroutine_own_address(s, n1, n2, n3) ==
    Ok([s EXCEPT !.stack = Append(@, s.pc - 2),
                 !.pc = n1 * 256 + recombine(n2, n3)])

call_subroutine(s, n1, n2, n3) ==
    IF s.pc > 65535
    THEN Panic(s)
    ELSE Ok([s EXCEPT !.stack = Append(@, s.pc),
                      !.pc = n1 * 256 + recombine(n2, n3)])

\* return that falls back to address 0 on an empty stack
subroutine_return_default(s) ==
    IF s.stack = << >>
    THEN Ok([s EXCEPT !.pc = 0])
    ELSE Ok([s EXCEPT !.pc = s.stack[Len(s.stack)],
                      !.stack = SubSeq(@, 1, Len(@) - 1)])

subroutine_return(s) ==
    IF s.stack = << >>
    THEN Panic(s)
    ELSE Ok([s EXCEPT !.pc = s.stack[Len(s.stack)],
                      !.stack = SubSeq(@, 1, Len(@) - 1)])

\* skip_vx with the two opcodes' conditions exchanged
skip_vx_inverted(s, register, n1, n2, equality) ==
    LET vx == s.registers[register]
        x == recombine(n1, n2)
    IN  IF (equality /\ vx # x) \/ (~equality /\ vx = x)
        THEN Ok([s EXCEPT !.pc = @ + 2])
        ELSE Ok(s)

skip_vx(s, register, n1, n2, equality) ==
    LET vx == s.registers[register]
        x == recombine(n1, n2)
    IN  IF (equality /\ vx = x) \/ (~equality /\ vx # x)
        THEN Ok([s EXCEPT !.pc = @ + 2])
        ELSE Ok(s)

skip_vxy(s, x, y, equality) ==
    LET vx == s.registers[x]
        vy == s.registers[y]
    IN  IF (equality /\ vx = vy) \/ (~equality /\ vx # vy)
        THEN Ok([s EXCEPT !.pc = @ + 2])
        ELSE Ok(s)

set(s, vx, vy) == Ok(WithReg(s, vx, s.registers[vy]))

or(s, vx, vy) == Ok(WithReg(s, vx, bit_or(s.registers[vx], s.registers[vy])))

and(s, vx, vy) == Ok(WithReg(s, vx, bit_and(s.registers[vx], s.registers[vy])))

xor(s, vx, vy) == Ok(WithReg(s, vx, bit_xor(s.registers[vx], s.registers[vy])))

\* add writing the carry before the sum
add_flag_first(s, vx, vy) ==
    LET x == s.registers[vx]
        y == s.registers[vy]
        s1 == WithReg(s, 15, IF x + y > 255 THEN 1 ELSE 0)
    IN  Ok(WithReg(s1, vx, (x + y) % 256))

add(s, vx, vy) ==
    LET x == s.registers[vx]
        y == s.registers[vy]
        s1 == WithReg(s, vx, (x + y) % 256)
    IN  Ok(WithReg(s1, 15, IF x + y > 255 THEN 1 ELSE 0))

sub(s, vx, lhs, rhs) ==
    LET l == s.registers[lhs]
        r == s.registers[rhs]
        s1 == WithReg(s, 15, IF l > r THEN 1 ELSE 0)
    IN  Ok(WithReg(s1, vx, (l - r) % 256))

\* shift_left taking the flag from bit 0, as shift_right does
shift_left_low_bit(s, vx) ==
    LET shifted == set_bit(0, s.registers[vx])
        s1 == WithReg(s, vx, (s.registers[vx] * 2) % 256)
    IN  Ok(WithReg(s1, 15, IF shifted THEN 1 ELSE 0))

shift_left(s, vx) ==
    LET shifted == set_bit(7, s.registers[vx])
        s1 == WithReg(s, vx, (s.registers[vx] * 2) % 256)
    IN  Ok(WithReg(s1, 15, IF shifted THEN 1 ELSE 0))

shift_right(s, vx) ==
    LET shifted == set_bit(0, s.registers[vx])
        s1 == WithReg(s, vx, s.registers[vx] \div 2)
    IN  Ok(WithReg(s1, 15, IF shifted THEN 1 ELSE 0))

\* r is the byte drawn from rand::thread_rng()
random(s, vx, n1, n2, r) == Ok(WithReg(s, vx, bit_and(recombine(n1, n2), r)))

\* `self.i += ..` on u16: past 65535 it panics with overflow checks, else wraps
add_to_index(s, vx, checked) ==
    LET sum == s.i + s.registers[vx]
    IN  IF sum > 65535 /\ checked
        THEN Panic(s)
        ELSE LET s1 == [s EXCEPT !.i = sum % 65536]
             IN  Ok(IF s1.i > 4096 THEN WithReg(s1, 15, 1) ELSE s1)

\* jump taking only the low byte of the address
jump_low_byte(s, n1, n2, n3) == Ok([s EXCEPT !.pc = recombine(n2, n3)])

jump(s, n1, n2, n3) == Ok([s EXCEPT !.pc = n1 * 256 + recombine(n2, n3)])

jump_with_offset(s, n1, n2, n3) ==
    Ok([s EXCEPT !.pc = (n1 * 256 + recombine(n2, n3)) + s.registers[0]])

\* `c * 5` on u8: past 255 it panics with overflow checks, else wraps
font_character(s, vx, checked) ==
    LET c == s.registers[vx]
    IN  IF c * 5 > 255 /\ checked
        THEN Panic(s)
        ELSE Ok([s EXCEPT !.i = FONT_START + ((c * 5) % 256)])

\* conversion storing the digits least significant first
conversion_reversed(s, vx) ==
    LET x == s.registers[vx]
    IN  IF s.i + 3 > MEMORY_SIZE
        THEN Panic(s)
        ELSE Ok([s EXCEPT !.memory[s.i] = digit(0, x),
                          !.memory[s.i + 1] = digit(1, x),
                          !.memory[s.i + 2] = digit(2, x)])

conversion(s, vx) ==
    LET x == s.registers[vx]
    IN  IF s.i + 3 > MEMORY_SIZE
        THEN Panic(s)
        ELSE Ok([s EXCEPT !.memory[s.i] = digit(2, x),
                          !.memory[s.i + 1] = digit(1, x),
                          !.memory[s.i + 2] = digit(0, x)])

\* memory[at..at + len].copy_from_slice(&registers[0..len]), one byte after another
RECURSIVE copy_from_slice(_, _, _, _)
copy_from_slice(memory, at, registers, len) ==
    IF len = 0
    THEN memory
    ELSE copy_from_slice([memory EXCEPT ![at + len - 1] = registers[len - 1]],
                         at, registers, len - 1)

store_to_memory(s, vx) ==
    LET len == vx + 1
    IN  IF s.i + len > MEMORY_SIZE
        THEN Panic(s)
        ELSE Ok([s EXCEPT !.memory = copy_from_slice(@, s.i, s.registers, len)])

\* load_from_memory copying into the exclusive range 0x0..vx
load_from_memory_exclusive(s, vx) ==
    LET len == vx
    IN  IF s.i + len > MEMORY_SIZE
        THEN Panic(s)
        ELSE Ok([s EXCEPT !.registers = [r \in DOMAIN @ |->
                    IF r < vx THEN s.memory[s.i + r] ELSE @[r]]])

load_from_memory(s, vx) ==
    LET len == vx + 1
    IN  IF s.i + len > MEMORY_SIZE
        THEN Panic(s)
        ELSE Ok([s EXCEPT !.registers = [r \in DOMAIN @ |->
                    IF r <= vx THEN s.memory[s.i + r] ELSE @[r]]])

set_register(s, register, n1, n2) == Ok(WithReg(s, register, recombine(n1, n2)))

add_to_register(s, register, n1, n2) ==
    Ok(WithReg(s, register, (s.registers[register] + recombine(n1, n2)) % 256))

set_memory_ptr(s, n1, n2, n3) == Ok([s EXCEPT !.i = n1 * 256 + recombine(n2, n3)])

\* the inner loop wrapping to column 0 at the right edge instead of stopping
RECURSIVE draw_columns_wrapping(_, _, _, _, _)
draw_columns_wrapping(s, sprite, x0, y, n) ==
    LET x == (x0 + n) % WIDTH
        on == set_bit(7 - n, sprite)
        f == flip(s.display, x, y)
        s1 == IF on
              THEN [s EXCEPT !.display = f.display,
                             !.registers[15] = IF f.off THEN 1 ELSE @]
              ELSE s
    IN  IF n >= 7
        THEN s1
        ELSE draw_columns_wrapping(s1, sprite, x0, y, n + 1)

\* the inner loop of draw_sprite: the bits of one sprite row, from column x0 + n on
RECURSIVE draw_columns(_, _, _, _, _)
draw_columns(s, sprite, x0, y, n) ==
    LET x == x0 + n
        on == set_bit(7 - n, sprite)
        f == flip(s.display, x, y)
        s1 == IF on
              THEN [s EXCEPT !.display = f.display,
                             !.registers[15] = IF f.off THEN 1 ELSE @]
              ELSE s
    IN  IF x >= WIDTH - 1 \/ n >= 7
        THEN s1
        ELSE draw_columns(s1, sprite, x0, y, n + 1)

\* the outer loop of draw_sprite: sprite rows idx .. height - 1
RECURSIVE draw_rows(_, _, _, _, _)
draw_rows(s, x0, y0, height, idx) ==
    IF idx >= height
    THEN Ok(s)
    ELSE IF s.i + idx >= MEMORY_SIZE
         THEN Panic(s)
         ELSE LET s1 == draw_columns(s, s.memory[s.i + idx], x0, y0 + idx, 0)
              IN  IF y0 + idx >= HEIGHT - 1
                  THEN Ok(s1)
                  ELSE draw_rows(s1, x0, y0, height, idx + 1)

\* draw_sprite without `self.registers[0xF] = 0`: a collision flag that sticks
draw_sprite_keep_flag(s, vx, vy, height) ==
    LET x == s.registers[vx] % WIDTH
        y == s.registers[vy] % HEIGHT
        r == draw_rows(s, x, y, height, 0)
    IN  IF r.fatal
        THEN r
        ELSE Ok([r.intr EXCEPT !.display = render(@)])

draw_sprite(s, vx, vy, height) ==
    LET x == s.registers[vx] % WIDTH
        y == s.registers[vy] % HEIGHT
        r == draw_rows(WithReg(s, 15, 0), x, y, height, 0)
    IN  IF r.fatal
        THEN r
        ELSE Ok([r.intr EXCEPT !.display = render(@)])

\* Interpreter::timer_to_vx, under a read guard on the timers
timer_to_vx(s, t, vx) == WithReg(s, vx, t.delay)

\* Interpreter::vx_to_timer, under the write guard on the timers
vx_to_timer(s, t, vx, delay) ==
    IF delay
    THEN [t EXCEPT !.delay = s.registers[vx]]
    ELSE [t EXCEPT !.sound = s.registers[vx]]

\* a receive that takes the newest event instead of the oldest
recv_newest(ch) == [key |-> ch[Len(ch)], rest |-> SubSeq(ch, 1, Len(ch) - 1)]

\* rx.try_recv() / rx.recv_timeout() on a non-empty channel: the oldest event leaves it
recv(ch) == [key |-> Head(ch), rest |-> Tail(ch)]

\* get_key storing the key in the flag register instead of VX
get_key_flag(s, vx, key) == WithReg(s, 15, KEYMAP[key])

\* Interpreter::get_key with an event received
get_key(s, vx, key) == WithReg(s, vx, KEYMAP[key])

\* skip_key with the two opcodes' conditions exchanged
skip_key_swapped(s, vx, key, press) ==
    LET k == KEYMAP[key]
    IN  IF press /\ s.registers[vx] # k
        THEN [s EXCEPT !.pc = @ + 2]
        ELSE IF ~press /\ s.registers[vx] = k
        THEN [s EXCEPT !.pc = @ + 2]
        ELSE s

\* Interpreter::skip_key with an event received
skip_key(s, vx, key, press) ==
    LET k == KEYMAP[key]
    IN  IF press /\ s.registers[vx] = k
        THEN [s EXCEPT !.pc = @ + 2]
        ELSE IF ~press /\ s.registers[vx] # k
        THEN [s EXCEPT !.pc = @ + 2]
        ELSE s

---------------------------------------------------------------------------
(* The match of Interpreter::execute *)

\* which arm of the match the nibbles select; "unknown" is the `_` arm
Opcode(nib) ==
    LET a == nib[1]
        b == nib[2]
        c == nib[3]
        d == nib[4]
    IN  CASE a = 0 /\ b = 0 /\ c = 14 /\ d = 0 -> "clear"
          [] a = 1 -> "jump"
          [] a = 0 /\ b = 0 /\ c = 14 /\ d = 14 -> "subroutine_return"
          [] a = 2 -> "call_subroutine"
          [] a = 3 -> "skip_vx_eq"
          [] a = 4 -> "skip_vx_ne"
          [] a = 5 /\ d = 0 -> "skip_vxy_eq"
          [] a = 9 /\ d = 0 -> "skip_vxy_ne"
          [] a = 6 -> "set_register"
          [] a = 7 -> "add_to_register"
          [] a = 8 /\ d = 0 -> "set"
          [] a = 8 /\ d = 1 -> "or"
          [] a = 8 /\ d = 2 -> "and"
          [] a = 8 /\ d = 3 -> "xor"
          [] a = 8 /\ d = 4 -> "add"
          [] a = 8 /\ d = 5 -> "sub_xy"
          [] a = 8 /\ d = 7 -> "sub_yx"
          [] a = 8 /\ d = 6 -> "shift_right"
          [] a = 8 /\ d = 14 -> "shift_left"
          [] a = 10 -> "set_memory_ptr"
          [] a = 11 -> "jump_with_offset"
          [] a = 12 -> "random"
          [] a = 13 -> "draw_sprite"
          [] a = 14 /\ c = 9 /\ d = 14 -> "skip_key_pressed"
          [] a = 14 /\ c = 10 /\ d = 1 -> "skip_key_not_pressed"
          [] a = 15 /\ c = 0 /\ d = 7 -> "timer_to_vx"
          [] a = 15 /\ c = 1 /\ d = 5 -> "vx_to_delay"
          [] a = 15 /\ c = 1 /\ d = 8 -> "vx_to_sound"
          [] a = 15 /\ c = 1 /\ d = 14 -> "add_to_index"
          [] a = 15 /\ c = 0 /\ d = 10 -> "get_key"
          [] a = 15 /\ c = 2 /\ d = 9 -> "font_character"
          [] a = 15 /\ c = 3 /\ d = 3 -> "conversion"
          [] a = 15 /\ c = 5 /\ d = 5 -> "store_to_memory"
          [] a = 15 /\ c = 6 /\ d = 5 -> "load_from_memory"
          [] OTHER -> "unknown"

\* the arms that touch the timers lock or the key channel
TimerOps == {"timer_to_vx", "vx_to_delay", "vx_to_sound"}
KeyOps == {"get_key", "skip_key_pressed", "skip_key_not_pressed"}

\* the arms that touch only the machine: r is the random byte, checked is
\* whether the build has integer overflow checks
execute_arm(s, nib, r, checked) ==
    LET op == Opcode(nib)
        b == nib[2]
        c == nib[3]
        d == nib[4]
    IN  CASE op = "clear" -> Ok([s EXCEPT !.display = clear(@)])
          [] op = "jump" -> jump(s, b, c, d)
          [] op = "subroutine_return" -> subroutine_return(s)
          [] op = "call_subroutine" -> call_subroutine(s, b, c, d)
          [] op = "skip_vx_eq" -> skip_vx(s, b, c, d, TRUE)
          [] op = "skip_vx_ne" -> skip_vx(s, b, c, d, FALSE)
          [] op = "skip_vxy_eq" -> skip_vxy(s, b, c, TRUE)
          [] op = "skip_vxy_ne" -> skip_vxy(s, b, c, FALSE)
          [] op = "set_register" -> set_register(s, b, c, d)
          [] op = "add_to_register" -> add_to_register(s, b, c, d)
          [] op = "set" -> set(s, b, c)
          [] op = "or" -> or(s, b, c)
          [] op = "and" -> and(s, b, c)
          [] op = "xor" -> xor(s, b, c)
          [] op = "add" -> add(s, b, c)
          [] op = "sub_xy" -> sub(s, b, b, c)
          [] op = "sub_yx" -> sub(s, b, c, b)
          [] op = "shift_right" -> shift_right(s, b)
          [] op = "shift_left" -> shift_left(s, b)
          [] op = "set_memory_ptr" -> set_memory_ptr(s, b, c, d)
          [] op = "jump_with_offset" -> jump_with_offset(s, b, c, d)
          [] op = "random" -> random(s, b, c, d, r)
          [] op = "draw_sprite" -> draw_sprite(s, b, c, d)
          [] op = "add_to_index" -> add_to_index(s, b, checked)
          [] op = "font_character" -> font_character(s, b, checked)
          [] op = "conversion" -> conversion(s, b)
          [] op = "store_to_memory" -> store_to_memory(s, b)
          [] op = "load_from_memory" -> load_from_memory(s, b)
          [] OTHER -> Panic(s)

---------------------------------------------------------------------------
(* Inputs *)

\* 1200: jump(0x200)
JumpRom == << 18, 0 >>

\* 6002 F015 F018 F107 1206: set both timers from V0 = 2 once, then read the delay timer forever
TimerOnceRom == << 96, 2, 240, 21, 240, 24, 241, 7, 18, 6 >>

\* 6002 F015 F107 1202: set the delay timer, read it, and set it again
TimerLoopRom == << 96, 2, 240, 21, 241, 7, 18, 2 >>

\* F00A E09E E0A1 1200: block until a key, then both key skips (KEYS_TEST of main.rs, extended)
KeysRom == << 240, 10, 224, 158, 224, 161, 18, 0 >>

\* 2204 00EE 2208 00EE 00EE: nested calls, their returns, then a return on the empty stack
CallRom == << 34, 4, 0, 238, 34, 8, 0, 238, 0, 238 >>

\* 6005 3005 1204 3006 4005 4006 120C 5010 9010 1212 5000 1216 9000 B215:
\* each register skip once with its condition true and once with it false,
\* a jump to itself in every skipped slot, then PC = 0x215 + V0 = 0x21A
SkipRom ==
    << 96, 5, 48, 5, 18, 4, 48, 6, 64, 5, 64, 6, 18, 12, 80, 16, 144, 16, 18, 18,
       80, 0, 18, 22, 144, 0, 178, 21 >>

Roms == {JumpRom, TimerOnceRom, TimerLoopRom, KeysRom, CallRom, SkipRom}

\* the rates run() is given: the default of cli::run; a rate of 0, which makes
\* 1000 / ips panic after the first instruction, is not among them
IpsValues == {DEFAULT_IPS}

\* the keys the user presses: X maps to 0x0, Key1 to 0x1
PressedKeys == {"X", "Key1"}

\* bytes the random source yields
RandBytes == {0, 15, 165, 255}

---------------------------------------------------------------------------
(* run(): the state after the interpreter is built and the channel created *)

Init ==
    /\ rom \in Roms
    /\ ips \in IpsValues
    /\ traceOn \in BOOLEAN
    /\ writerPriority \in BOOLEAN
    /\ callerPc = "main"
    /\ execPc = "unspawned"
    /\ timerPc = "unspawned"
    /\ intr = load_rom(NewInterpreter, rom)
    /\ inst = << 0, 0, 0, 0 >>
    /\ timers = NewTimers
    /\ timerReaders = 0
    /\ chan = << >>
    /\ txAlive = TRUE
    /\ sentLog = << >>
    /\ recvLog = << >>
    /\ lastSet = [delay |-> 0, sound |-> 0]
    /\ ticks = [delay |-> 0, sound |-> 0]
    /\ setToggle = FALSE
    /\ callLog = << >>
    /\ trail = << >>
    /\ intrLock = "free"
    /\ exitCause = "none"

Running == exitCause = "none"

\* std::process::exit(1): every thread stops
Exit(cause) ==
    /\ execPc' = "exited"
    /\ exitCause' = cause

machineVars == <<intr, inst>>
timerVars == <<timers, timerReaders, lastSet, ticks, setToggle>>
chanVars == <<chan, txAlive, sentLog, recvLog>>
configVars == <<rom, ips, traceOn, writerPriority>>

---------------------------------------------------------------------------
(* The calling thread: run() *)

\* Interpreter::main: spawn the execute thread
CallerMain ==
    /\ Running
    /\ callerPc = "main"
    /\ callerPc' = "timers"
    /\ execPc' = "spawned"
    /\ UNCHANGED <<configVars, trail, timerPc, machineVars, timerVars, chanVars,
                   callLog, intrLock, exitCause>>

\* Interpreter::timers: intr.read() to clone the timers handle, then spawn the timer thread
CallerTimers ==
    /\ Running
    /\ callerPc = "timers"
    /\ intrLock = "free"
    /\ callerPc' = "ui"
    /\ timerPc' = "sleep"
    /\ UNCHANGED <<configVars, trail, execPc, machineVars, timerVars, chanVars,
                   callLog, intrLock, exitCause>>

\* a key press written straight into V0 by the event loop, past the channel
UiSend_into_register(key) ==
    /\ Running
    /\ callerPc = "ui"
    /\ Len(sentLog) < MaxSends
    /\ chan' = Append(chan, key)
    /\ sentLog' = Append(sentLog, key)
    /\ intr' = WithReg(intr, 0, 1)
    /\ UNCHANGED <<configVars, trail, callerPc, execPc, timerPc, inst, timerVars,
                   txAlive, recvLog, callLog, intrLock, exitCause>>

\* Interpreter::ui: a key of KEYMAP is pressed and sent
UiSend(key) ==
    /\ Running
    /\ callerPc = "ui"
    /\ Len(sentLog) < MaxSends
    /\ chan' = Append(chan, key)
    /\ sentLog' = Append(sentLog, key)
    /\ UNCHANGED <<configVars, trail, callerPc, execPc, timerPc, machineVars, timerVars,
                   txAlive, recvLog, callLog, intrLock, exitCause>>

\* Interpreter::ui: input.quit(): the event loop ends and its closure, with the Sender, is dropped
UiQuit ==
    /\ Running
    /\ callerPc = "ui"
    /\ callerPc' = "quit"
    /\ txAlive' = FALSE
    /\ UNCHANGED <<configVars, trail, execPc, timerPc, machineVars, timerVars,
                   chan, sentLog, recvLog, callLog, intrLock, exitCause>>

---------------------------------------------------------------------------
(* The timer thread: the loop of Interpreter::timers *)

\* timers.write() is requested
TimerRequest ==
    /\ Running
    /\ timerPc = "sleep"
    /\ timerPc' = "waiting"
    /\ UNCHANGED <<configVars, trail, callerPc, execPc, machineVars, timerVars, chanVars,
                   callLog, intrLock, exitCause>>

\* one more tick, counted up to the value v written: min(k, v) decides max(0, v - k)
CountTick(n, v) == IF n < v THEN n + 1 ELSE n

\* the write guard is granted, update() runs, the guard is dropped, the thread sleeps
TimerTick ==
    /\ Running
    /\ timerPc = "waiting"
    /\ timerReaders = 0
    /\ timers' = update(timers)
    /\ ticks' = [delay |-> CountTick(ticks.delay, lastSet.delay),
                  sound |-> CountTick(ticks.sound, lastSet.sound)]
    /\ timerPc' = "sleep"
    /\ UNCHANGED <<configVars, trail, callerPc, execPc, machineVars, timerReaders, lastSet,
                   setToggle, chanVars, callLog, intrLock, exitCause>>

---------------------------------------------------------------------------
(* The execute thread: Interpreter::main and the loop of Interpreter::execute *)

\* whether a timers.read() is granted: no writer holds the lock, and a queued
\* writer blocks new readers where the platform's lock prefers writers
CanRead == ~(writerPriority /\ timerPc = "waiting")

\* intr.write(): held from here on for the whole run
ExecLock ==
    /\ Running
    /\ execPc = "spawned"
    /\ intrLock = "free"
    /\ intrLock' = "write"
    /\ execPc' = "fetch"
    /\ UNCHANGED <<configVars, trail, callerPc, timerPc, machineVars, timerVars, chanVars,
                   callLog, exitCause>>

\* self.decode(): fetch the word at pc, advance pc, split the nibbles
ExecFetch ==
    /\ Running
    /\ execPc = "fetch"
    /\ LET f == fetch(intr)
       IN  IF f.fatal
           THEN /\ Exit("panic")
                /\ UNCHANGED machineVars
           ELSE /\ intr' = f.intr
                /\ inst' = Decode(f.word)
                /\ execPc' = IF traceOn THEN "trace1" ELSE "dispatch"
                /\ UNCHANGED exitCause
    /\ UNCHANGED <<configVars, trail, callerPc, timerPc, timerVars, chanVars, callLog, intrLock>>

\* trace!("Timers: ..."): the first argument takes a read guard on the timers
ExecTrace1 ==
    /\ Running
    /\ execPc = "trace1"
    /\ CanRead
    /\ timerReaders' = timerReaders + 1
    /\ execPc' = "trace2"
    /\ UNCHANGED <<configVars, trail, callerPc, timerPc, machineVars, timers, lastSet, ticks,
                   setToggle, chanVars, callLog, intrLock, exitCause>>

\* the second argument takes another read guard while the first is alive;
\* the line is written and both guards are dropped
ExecTrace2 ==
    /\ Running
    /\ execPc = "trace2"
    /\ CanRead
    /\ timerReaders' = timerReaders - 1
    /\ execPc' = "dispatch"
    /\ UNCHANGED <<configVars, trail, callerPc, timerPc, machineVars, timers, lastSet, ticks,
                   setToggle, chanVars, callLog, intrLock, exitCause>>

\* the `_` arm doing nothing
ExecUnknown_ignored ==
    /\ Running
    /\ execPc = "dispatch"
    /\ Opcode(inst) = "unknown"
    /\ execPc' = "sleep"
    /\ UNCHANGED <<configVars, trail, callerPc, timerPc, machineVars, timerVars, chanVars,
                   callLog, intrLock, exitCause>>

\* the `_` arm: error!("Unknown opcode") and exit
ExecUnknown ==
    /\ Running
    /\ execPc = "dispatch"
    /\ Opcode(inst) = "unknown"
    /\ Exit("unknown_opcode")
    /\ UNCHANGED <<configVars, trail, callerPc, timerPc, machineVars, timerVars, chanVars,
                   callLog, intrLock>>

\* the history of calls: a call records its site and the stack before it, a return drops the latest
NextCallLog(op) ==
    IF op = "call_subroutine"
    THEN Append(callLog, [site |-> intr.pc - 2, before |-> intr.stack])
    ELSE IF op = "subroutine_return" /\ callLog # << >>
    THEN SubSeq(callLog, 1, Len(callLog) - 1)
    ELSE callLog

\* the arms that touch only the machine
ExecArm ==
    /\ Running
    /\ execPc = "dispatch"
    /\ Opcode(inst) \notin (TimerOps \cup KeyOps \cup {"unknown"})
    /\ \E r \in (IF Opcode(inst) = "random" THEN RandBytes ELSE {0}) :
       \E checked \in (IF Opcode(inst) \in {"add_to_index", "font_character"}
                       THEN BOOLEAN ELSE {TRUE}) :
          LET out == execute_arm(intr, inst, r, checked)
          IN  IF out.fatal
              THEN /\ Exit("panic")
                   /\ UNCHANGED <<intr, callLog>>
              ELSE /\ intr' = out.intr
                   /\ execPc' = "sleep"
                   /\ callLog' = NextCallLog(Opcode(inst))
                   /\ UNCHANGED exitCause
    /\ UNCHANGED <<configVars, trail, callerPc, timerPc, inst, timerVars, chanVars, intrLock>>

\* FX07: timer_to_vx under a read guard
ExecTimerRead ==
    /\ Running
    /\ execPc = "dispatch"
    /\ Opcode(inst) = "timer_to_vx"
    /\ CanRead
    /\ intr' = timer_to_vx(intr, timers, inst[2])
    /\ execPc' = "sleep"
    /\ UNCHANGED <<configVars, trail, callerPc, timerPc, inst, timerVars, chanVars,
                   callLog, intrLock, exitCause>>

\* FX15 and FX18: vx_to_timer under the write guard
ExecTimerWrite ==
    /\ Running
    /\ execPc = "dispatch"
    /\ Opcode(inst) \in {"vx_to_delay", "vx_to_sound"}
    /\ timerReaders = 0
    /\ LET delay == Opcode(inst) = "vx_to_delay"
       IN  /\ timers' = vx_to_timer(intr, timers, inst[2], delay)
           /\ lastSet' = IF delay THEN [lastSet EXCEPT !.delay = intr.registers[inst[2]]]
                                  ELSE [lastSet EXCEPT !.sound = intr.registers[inst[2]]]
           /\ ticks' = IF delay THEN [ticks EXCEPT !.delay = 0]
                                ELSE [ticks EXCEPT !.sound = 0]
    /\ setToggle' = ~setToggle
    /\ execPc' = "sleep"
    /\ UNCHANGED <<configVars, trail, callerPc, timerPc, machineVars, timerReaders, chanVars,
                   callLog, intrLock, exitCause>>

\* FX0A, EX9E, EXA1: enter the key wait
ExecKeyWait ==
    /\ Running
    /\ execPc = "dispatch"
    /\ Opcode(inst) \in KeyOps
    /\ execPc' = IF Opcode(inst) = "get_key" THEN "get_key" ELSE "skip_key"
    /\ UNCHANGED <<configVars, trail, callerPc, timerPc, machineVars, timerVars, chanVars,
                   callLog, intrLock, exitCause>>

\* get_key: one rx.try_recv() of the 'wait loop
ExecGetKey ==
    /\ Running
    /\ execPc = "get_key"
    /\ IF chan # << >>
       THEN /\ intr' = get_key(intr, inst[2], recv(chan).key)
            /\ chan' = recv(chan).rest
            /\ recvLog' = Append(recvLog, recv(chan).key)
            /\ execPc' = "sleep"
            /\ UNCHANGED exitCause
       ELSE IF ~txAlive
       THEN /\ Exit("disconnected")
            /\ UNCHANGED <<intr, chan, recvLog>>
       ELSE UNCHANGED <<intr, chan, recvLog, execPc, exitCause>>
    /\ UNCHANGED <<configVars, trail, callerPc, timerPc, inst, timerVars, txAlive, sentLog,
                   callLog, intrLock>>

\* skip_key: rx.recv_timeout(100ms) yields an event, or times out or finds
\* the channel closed with nothing in it
ExecSkipKey ==
    /\ Running
    /\ execPc = "skip_key"
    /\ IF chan # << >>
       THEN /\ intr' = skip_key(intr, inst[2], recv(chan).key,
                                Opcode(inst) = "skip_key_pressed")
            /\ chan' = recv(chan).rest
            /\ recvLog' = Append(recvLog, recv(chan).key)
       ELSE UNCHANGED <<intr, chan, recvLog>>
    /\ execPc' = "sleep"
    /\ UNCHANGED <<configVars, trail, callerPc, timerPc, inst, timerVars, txAlive, sentLog,
                   callLog, intrLock, exitCause>>

\* std::thread::sleep(1000 / ips): the division panics on a rate of 0
ExecSleep ==
    /\ Running
    /\ execPc = "sleep"
    /\ IF ips = 0
       THEN Exit("panic")
       ELSE /\ 1000 \div ips >= 0
            /\ execPc' = "fetch"
            /\ UNCHANGED exitCause
    /\ UNCHANGED <<configVars, trail, callerPc, timerPc, machineVars, timerVars, chanVars,
                   callLog, intrLock>>

---------------------------------------------------------------------------
(* Specifications *)

CallerNext == CallerMain \/ CallerTimers

UiNext == (\E key \in PressedKeys : UiSend(key)) \/ UiQuit

TimerNext == TimerRequest \/ TimerTick

ExecNext ==
    \/ ExecLock
    \/ ExecFetch
    \/ ExecTrace1
    \/ ExecTrace2
    \/ ExecUnknown
    \/ ExecArm
    \/ ExecTimerRead
    \/ ExecTimerWrite
    \/ ExecKeyWait
    \/ ExecGetKey
    \/ ExecSkipKey
    \/ ExecSleep

Next == CallerNext \/ UiNext \/ TimerNext \/ ExecNext

\* run() under every interleaving of its threads
Spec == Init /\ [][Next]_vars

\* run() with the threads the scheduler runs: each of the calling thread's
\* startup, the timer thread and the execute thread takes its step when it
\* stays able to; the user need not press a key
FairRoms == {TimerOnceRom, KeysRom}

FairInit == Init /\ rom \in FairRoms

FairSpec ==
    /\ FairInit
    /\ [][Next]_vars
    /\ WF_vars(CallerNext)
    /\ WF_vars(TimerNext)
    /\ WF_vars(ExecNext)

\* the execute thread alone on an arbitrary first instruction: it took the
\* interpreter lock before the calling thread asked for it, so neither the
\* timer thread nor the event loop ever starts
\* every word 0NNN with N1 in 0..1, and every word with a first nibble of
\* 1..F and a second nibble (a register index or address digit) of 1
WordRoms ==
    { << b, 16 * c + d >> : b \in {0, 1}, c \in Nibble, d \in Nibble }
    \cup { << 16 * a + 1, 16 * c + d >> : a \in 1..15, c \in Nibble, d \in Nibble }

SeqInit ==
    /\ rom \in WordRoms
    /\ ips \in IpsValues
    /\ traceOn = FALSE
    /\ writerPriority = FALSE
    /\ callerPc = "timers"
    /\ execPc = "fetch"
    /\ timerPc = "unspawned"
    /\ intr = load_rom(NewInterpreter, rom)
    /\ inst = << 0, 0, 0, 0 >>
    /\ timers = NewTimers
    /\ timerReaders = 0
    /\ chan = << >>
    /\ txAlive = TRUE
    /\ sentLog = << >>
    /\ recvLog = << >>
    /\ lastSet = [delay |-> 0, sound |-> 0]
    /\ ticks = [delay |-> 0, sound |-> 0]
    /\ setToggle = FALSE
    /\ callLog = << >>
    /\ trail = << >>
    /\ intrLock = "write"
    /\ exitCause = "none"

SeqNext ==
    \/ ExecFetch
    \/ ExecUnknown
    \/ ExecArm
    \/ ExecTimerRead
    \/ ExecTimerWrite
    \/ ExecKeyWait
    \/ ExecSkipKey
    \/ ExecSleep

SeqSpec == SeqInit /\ [][SeqNext]_vars

---------------------------------------------------------------------------
(* One handler at a time: the match of Interpreter::execute applied to a   *)
(* machine at an instruction boundary, under the execute thread alone.     *)

\* the machine of an empty ROM with the registers v0, v1 and vf in V0, V1 and
\* VF, the index register i and the pixels lit set, as 6XNN, ANNN, FX1E and
\* DXYN instructions leave them
Machine(bytes, v0, v1, vf, i, lit) ==
    [ load_rom(NewInterpreter, bytes) EXCEPT
        !.registers = [r \in 0..(REGISTER_COUNT - 1) |->
                         IF r = 0 THEN v0 ELSE IF r = 1 THEN v1 ELSE IF r = 15 THEN vf ELSE 0],
        !.i = i,
        !.display = [scratch_pixels |-> lit, pixels |-> lit] ]

\* the execute thread holds the interpreter lock and is about to dispatch
HandlerInit(bytes, machines) ==
    /\ rom = bytes
    /\ ips \in IpsValues
    /\ traceOn = FALSE
    /\ writerPriority = FALSE
    /\ callerPc = "timers"
    /\ execPc = "execute"
    /\ timerPc = "unspawned"
    /\ intr \in machines
    /\ inst = << 0, 0, 0, 0 >>
    /\ timers = NewTimers
    /\ timerReaders = 0
    /\ chan = << >>
    /\ txAlive = TRUE
    /\ sentLog = << >>
    /\ recvLog = << >>
    /\ lastSet = [delay |-> 0, sound |-> 0]
    /\ ticks = [delay |-> 0, sound |-> 0]
    /\ setToggle = FALSE
    /\ callLog = << >>
    /\ trail = << >>
    /\ intrLock = "write"
    /\ exitCause = "none"

\* the builds an arm's outcome may differ between (with and without integer
\* overflow checks), and the bytes the random source may yield to it
Builds(nib) == IF Opcode(nib) \in {"add_to_index", "font_character"} THEN BOOLEAN ELSE {FALSE}
Draws(nib) == IF Opcode(nib) = "random" THEN RandBytes ELSE {0}

\* the match of Interpreter::execute on the nibbles nib, at most limit times
\* in a run; a panic in the handler exits the process
Dispatch(nib, limit) ==
    /\ Running
    /\ execPc = "execute"
    /\ Len(trail) < limit
    /\ \E checked \in Builds(nib), r \in Draws(nib) :
        LET res == execute_arm(intr, nib, r, checked)
        IN  /\ trail' = Append(trail, [nib |-> nib, pre |-> intr, fatal |-> res.fatal])
            /\ inst' = nib
            /\ IF res.fatal
               THEN Exit("panic") /\ UNCHANGED intr
               ELSE intr' = res.intr /\ UNCHANGED <<execPc, exitCause>>
    /\ UNCHANGED <<configVars, callerPc, timerPc, timerVars, chanVars, callLog, intrLock>>

\* the latest dispatch, the machine before it, and the registers and nibbles it names
Last == trail[Len(trail)]
Pre == Last.pre
Dispatched(op) == trail # << >> /\ Opcode(Last.nib) = op /\ ~Last.fatal
LastX == Last.nib[2]
LastY == Last.nib[3]

\* the machine s with register x, the flag register and nothing else replaced
OnlyRegs(s, x, v, f) == [s EXCEPT !.registers = [@ EXCEPT ![x] = v, ![15] = f]]

---------------------------------------------------------------------------
(* Arithmetic handlers: 8XY4, 8XY5, 8XY7, 8XY6, 8XYE *)

AluOps == 1

\* register indices the instructions name: two general registers and the flag register
AluRegs == {0, 1, 15}

AluMachines ==
    { Machine(<< >>, v0, v1, vf, 0, {}) :
        v0 \in {0, 5, 128, 250}, v1 \in {5, 10, 255}, vf \in {0, 3} }

ApplyAdd == \E x \in AluRegs, y \in AluRegs : Dispatch(<< 8, x, y, 4 >>, AluOps)
ApplySubXY == \E x \in AluRegs, y \in AluRegs : Dispatch(<< 8, x, y, 5 >>, AluOps)
ApplySubYX == \E x \in AluRegs, y \in AluRegs : Dispatch(<< 8, x, y, 7 >>, AluOps)
ApplyShiftRight == \E x \in AluRegs, y \in AluRegs : Dispatch(<< 8, x, y, 6 >>, AluOps)
ApplyShiftLeft == \E x \in AluRegs, y \in AluRegs : Dispatch(<< 8, x, y, 14 >>, AluOps)

AluInit == HandlerInit(<< >>, AluMachines)

AluNext ==
    \/ ApplyAdd
    \/ ApplySubXY
    \/ ApplySubYX
    \/ ApplyShiftRight
    \/ ApplyShiftLeft

AluSpec == AluInit /\ [][AluNext]_vars

---------------------------------------------------------------------------
(* Index register handlers: FX1E, FX29 *)

IndexOps == 2

\* register indices the instructions name: a general register and the flag register
IndexRegs == {0, 15}

\* index register values: 0, around the 0x1000 threshold, and, after enough
\* FX1E instructions, just below the top of u16
IndexValues == {0, 4094, 4095, 65534}

IndexMachines ==
    { Machine(<< >>, v0, 0, vf, i, {}) :
        v0 \in {1, 5, 10, 26, 52, 255}, vf \in {0, 1}, i \in IndexValues }

ApplyAddToIndex == \E x \in IndexRegs : Dispatch(<< 15, x, 1, 14 >>, IndexOps)
ApplyFontCharacter == \E x \in IndexRegs : Dispatch(<< 15, x, 2, 9 >>, IndexOps)

IndexInit == HandlerInit(<< >>, IndexMachines)

IndexNext ==
    \/ ApplyAddToIndex
    \/ ApplyFontCharacter

IndexSpec == IndexInit /\ [][IndexNext]_vars

---------------------------------------------------------------------------
(* Memory transfer handlers: FX55, FX65, FX33, with 6XNN between them *)

MemOps == 3

\* the x nibbles: one register, four registers, the whole register file
MemRegs == {0, 3, 15}

\* register files: 1, 2, .., 16, and 123, 164, 205, 246, ..
MemRegisters ==
    { [r \in 0..(REGISTER_COUNT - 1) |-> r + 1],
      [r \in 0..(REGISTER_COUNT - 1) |-> (123 + 41 * r) % 256] }

\* index register values: in the program area, and 4 and 2 bytes before the end of memory
MemIndexValues == {768, 4092, 4094}

MemMachines ==
    { [load_rom(NewInterpreter, << >>) EXCEPT !.registers = regs, !.i = i] :
        regs \in MemRegisters, i \in MemIndexValues }

ApplyStoreToMemory == \E x \in MemRegs : Dispatch(<< 15, x, 5, 5 >>, MemOps)
ApplyLoadFromMemory == \E x \in MemRegs : Dispatch(<< 15, x, 6, 5 >>, MemOps)
ApplyConversion == \E x \in {0, 3} : Dispatch(<< 15, x, 3, 3 >>, MemOps)
ApplySetRegister == \E x \in {0, 3} : Dispatch(<< 6, x, 0, 0 >>, MemOps)

MemInit == HandlerInit(<< >>, MemMachines)

MemNext ==
    \/ ApplyStoreToMemory
    \/ ApplyLoadFromMemory
    \/ ApplyConversion
    \/ ApplySetRegister

MemSpec == MemInit /\ [][MemNext]_vars

---------------------------------------------------------------------------
(* The draw handler: DXYN *)

DrawOps == 3

\* sprite data a ROM carries: a row of 8 set bits, then rows with gaps
SpriteRom == << 255, 129, 60, 1, 128 >>

\* x coordinates in V0 (69 is 5 mod 64, 255 is 63 mod 64) and y coordinates in
\* V1 (33 is 1 mod 32); the sprite at the ROM's first byte, the glyph of 0 in
\* the font, or the last byte of memory
DrawMachines ==
    { Machine(SpriteRom, v0, v1, vf, i, {}) :
        v0 \in {0, 60, 69, 255}, v1 \in {0, 30, 33}, vf \in {0, 1},
        i \in {MEMORY_OFFSET, FONT_START, MEMORY_SIZE - 1} }

\* DXYN with X = 0, Y = 1 and each height, and with the flag register as X
ApplyDrawSprite ==
    \/ \E height \in {0, 1, 5, 15} : Dispatch(<< 13, 0, 1, height >>, DrawOps)
    \/ Dispatch(<< 13, 15, 1, 1 >>, DrawOps)

DrawInit == HandlerInit(SpriteRom, DrawMachines)

DrawNext == ApplyDrawSprite

DrawSpec == DrawInit /\ [][DrawNext]_vars

---------------------------------------------------------------------------
(* The decoder on its own: cli::disassemble decodes each 16-bit big-endian *)
(* word of a byte stream, with no interpreter running.                      *)

\* the two bytes of a chunk of the stream
ChunkBytes == Byte

\* Instruction::from(u16::from_be_bytes([chunk[0], chunk[1]])) on the first
\* chunk: the trail keeps the word that was decoded
InstructionFrom ==
    /\ trail = << >>
    /\ \E hi \in ChunkBytes, lo \in ChunkBytes :
        /\ inst' = Decode(hi * 256 + lo)
        /\ trail' = << [word |-> hi * 256 + lo] >>
    /\ UNCHANGED <<configVars, callerPc, execPc, timerPc, intr, timerVars, chanVars,
                   callLog, intrLock, exitCause>>

\* no thread of run() was started
DecodeInit ==
    /\ rom = << >>
    /\ ips \in IpsValues
    /\ traceOn = FALSE
    /\ writerPriority = FALSE
    /\ callerPc = "main"
    /\ execPc = "unspawned"
    /\ timerPc = "unspawned"
    /\ intr = load_rom(NewInterpreter, rom)
    /\ inst = << 0, 0, 0, 0 >>
    /\ timers = NewTimers
    /\ timerReaders = 0
    /\ chan = << >>
    /\ txAlive = TRUE
    /\ sentLog = << >>
    /\ recvLog = << >>
    /\ lastSet = [delay |-> 0, sound |-> 0]
    /\ ticks = [delay |-> 0, sound |-> 0]
    /\ setToggle = FALSE
    /\ callLog = << >>
    /\ trail = << >>
    /\ intrLock = "free"
    /\ exitCause = "none"

DecodeNext == InstructionFrom

DecodeSpec == DecodeInit /\ [][DecodeNext]_vars

---------------------------------------------------------------------------
(* Loading programs: Interpreter::load_rom called on an interpreter that   *)
(* may have run a program before, with no thread of run() started.         *)

LoadOps == 2

\* the largest ROM that fits, and the smallest that does not
FullRom == [k \in 1..(MEMORY_SIZE - MEMORY_OFFSET) |-> 255]
OversizeRom == [k \in 1..(MEMORY_SIZE - MEMORY_OFFSET + 1) |-> 0]

LoadRoms == {<< >>, JumpRom, SpriteRom, FullRom, OversizeRom}

\* a new interpreter, and interpreters a program has run on: registers, I,
\* PC, stack and display in use, memory written in and below the program
\* area
LoadMachines ==
    {NewInterpreter} \cup
    { [ Machine(bytes, 250, 10, 1, 4094, {0, 65}) EXCEPT
          !.pc = MEMORY_OFFSET + 4,
          !.stack = stack,
          !.memory = [@ EXCEPT ![768] = 9, ![FONT_START] = 0, ![0] = 7] ] :
        bytes \in {SpriteRom, FullRom}, stack \in {<< >>, << MEMORY_OFFSET + 2 >>} }

\* Interpreter::load_rom(bytes): a ROM that does not fit panics in
\* copy_from_slice; the timers handle is replaced by a new one
ApplyLoadRom ==
    /\ Running
    /\ execPc = "unspawned"
    /\ Len(trail) < LoadOps
    /\ \E bytes \in LoadRoms :
        /\ trail' = Append(trail, [rom |-> bytes, pre |-> intr, fatal |-> ~RomFits(bytes)])
        /\ IF RomFits(bytes)
           THEN /\ intr' = load_rom(intr, bytes)
                /\ rom' = bytes
                /\ timers' = NewTimers
                /\ UNCHANGED <<execPc, exitCause>>
           ELSE Exit("panic") /\ UNCHANGED <<intr, rom, timers>>
    /\ UNCHANGED <<traceOn, ips, writerPriority, callerPc, timerPc, inst, timerReaders,
                   chanVars, lastSet, ticks, setToggle, callLog, intrLock>>

\* no thread of run() was started; the timers may have counted before
LoadInit ==
    /\ rom = << >>
    /\ ips \in IpsValues
    /\ traceOn = FALSE
    /\ writerPriority = FALSE
    /\ callerPc = "main"
    /\ execPc = "unspawned"
    /\ timerPc = "unspawned"
    /\ intr \in LoadMachines
    /\ inst = << 0, 0, 0, 0 >>
    /\ timers \in {NewTimers, [delay |-> 7, sound |-> 3]}
    /\ timerReaders = 0
    /\ chan = << >>
    /\ txAlive = TRUE
    /\ sentLog = << >>
    /\ recvLog = << >>
    /\ lastSet = [delay |-> 0, sound |-> 0]
    /\ ticks = [delay |-> 0, sound |-> 0]
    /\ setToggle = FALSE
    /\ callLog = << >>
    /\ trail = << >>
    /\ intrLock = "free"
    /\ exitCause = "none"

LoadNext == ApplyLoadRom

LoadSpec == LoadInit /\ [][LoadNext]_vars

---------------------------------------------------------------------------
(* Whole programs under the execute thread alone: it took the interpreter  *)
(* lock before the calling thread asked for it, and runs fetch, execute    *)
(* and the pacing sleep in a loop.                                          *)

\* 60FF A050 F055 A055 F033, then the zero word: V0 = 255 stored at the
\* first font byte, then its decimal digits at 0x55..0x57
FontRom == << 96, 255, 160, 80, 240, 85, 160, 85, 240, 51 >>

\* C03F C11F A050 D015 8014 F01E F015 F207 E29E 6F07 00E0 D015 1218: the
\* glyph 0 drawn at a random place, an addition, an index step, the delay
\* timer set and read, a key skip and a register set, the screen cleared,
\* the glyph drawn again, then a jump to itself
DisplayRom ==
    << 192, 63, 193, 31, 160, 80, 208, 21, 128, 20, 240, 30, 240, 21, 242, 7,
       226, 158, 111, 7, 0, 224, 208, 21, 18, 24 >>

ProgRoms == {FontRom, DisplayRom}

ProgInit ==
    /\ rom \in ProgRoms
    /\ ips \in IpsValues
    /\ traceOn = FALSE
    /\ writerPriority = FALSE
    /\ callerPc = "timers"
    /\ execPc = "fetch"
    /\ timerPc = "unspawned"
    /\ intr = load_rom(NewInterpreter, rom)
    /\ inst = << 0, 0, 0, 0 >>
    /\ timers = NewTimers
    /\ timerReaders = 0
    /\ chan = << >>
    /\ txAlive = TRUE
    /\ sentLog = << >>
    /\ recvLog = << >>
    /\ lastSet = [delay |-> 0, sound |-> 0]
    /\ ticks = [delay |-> 0, sound |-> 0]
    /\ setToggle = FALSE
    /\ callLog = << >>
    /\ trail = << >>
    /\ intrLock = "write"
    /\ exitCause = "none"

ProgNext ==
    \/ ExecFetch
    \/ ExecUnknown
    \/ ExecArm
    \/ ExecTimerRead
    \/ ExecTimerWrite
    \/ ExecKeyWait
    \/ ExecSkipKey
    \/ ExecSleep

ProgSpec == ProgInit /\ [][ProgNext]_vars

---------------------------------------------------------------------------
(* The handlers that write the flag register: 8XY4, 8XY5, 8XY7, 8XY6,     *)
(* 8XYE and DXYN, on machines that differ in VF.                           *)

FlagOps == 1

\* register indices the instructions name: two general registers and the flag register
FlagRegs == {0, 1, 15}

\* values of VF before the instruction
FlagValues == {0, 1, 3, 255}

\* the sprite 0xFF at I, the screen blank or lit where the sprite lands
FlagMachines ==
    { Machine(SpriteRom, v0, v1, vf, MEMORY_OFFSET, lit) :
        v0 \in {5, 250}, v1 \in {10, 255}, vf \in FlagValues,
        lit \in {{}, {5 + 10 * WIDTH, 3 + 3 * WIDTH}} }

FlagNibbles ==
    { << 8, x, y, k >> : x \in FlagRegs, y \in FlagRegs, k \in {4, 5, 7, 6, 14} }
    \cup { << 13, x, y, n >> : x \in FlagRegs, y \in FlagRegs, n \in {1, 2} }

ApplyFlagOp == \E nib \in FlagNibbles : Dispatch(nib, FlagOps)

FlagInit == HandlerInit(SpriteRom, FlagMachines)

FlagNext == ApplyFlagOp

FlagSpec == FlagInit /\ [][FlagNext]_vars

---------------------------------------------------------------------------
(* Claims *)

Dec(n) == IF n > 0 THEN n - 1 ELSE 0

\* C1: under fair scheduling of the threads, a delay or sound counter that is
\* > 0 reaches 0 unless a later set-timer instruction is executed: the
\* execute thread's hold on the interpreter lock cannot starve the timer loop.
C1_TimerDecayNotStarved ==
    \A b \in BOOLEAN :
        /\ (timers.delay > 0 /\ setToggle = b) ~> (timers.delay = 0 \/ setToggle # b)
        /\ (timers.sound > 0 /\ setToggle = b) ~> (timers.sound = 0 \/ setToggle # b)

\* C2: one timer tick takes each counter that is > 0 to exactly one less and
\* leaves a counter that is 0 at 0, each independently of the other; both
\* counters stay in 0..255 and no tick wraps 0 to 255.
C2_TickDecrements ==
    /\ [](timers.delay \in Byte /\ timers.sound \in Byte)
    /\ [][TimerTick => /\ timers'.delay = Dec(timers.delay)
                       /\ timers'.sound = Dec(timers.sound)]_vars

\* a tick has taken the delay counter from 2 to 1 while the sound counter stayed 0
C2_Witness ==
    /\ rom = TimerLoopRom
    /\ timers.delay = 1 /\ lastSet.delay = 2 /\ ticks.delay = 1
    /\ timers.sound = 0 /\ lastSet.sound = 0

\* C3: under every interleaving each counter equals max(0, v - k), v the value
\* of the latest set-timer and k the ticks completed since, and
\* read-delay-timer stores exactly that value in VX.
C3_NoLostOrDoubleDecrement ==
    /\ [](/\ timers.delay = Max(0, lastSet.delay - ticks.delay)
          /\ timers.sound = Max(0, lastSet.sound - ticks.sound))
    /\ [][ExecTimerRead =>
            intr'.registers[inst[2]] = Max(0, lastSet.delay - ticks.delay)]_vars

\* the delay timer was read as 1 after a tick, set to 2 again, and a tick is queued behind the set
C3_Witness ==
    /\ rom = TimerLoopRom
    /\ intr.registers[1] = 1
    /\ timers.delay = 2 /\ ticks.delay = 0
    /\ timerPc = "waiting"

\* C4: every key event sent is received at most once and in send order, each
\* execution of a key opcode taking at most one event: what was received,
\* followed by what waits in the channel, is what was sent.
C4_KeysOnceInOrder ==
    /\ [](recvLog \o chan = sentLog)
    /\ [][recvLog' # recvLog =>
            /\ execPc \in {"get_key", "skip_key"}
            /\ execPc' = "sleep"
            /\ recvLog' = Append(recvLog, Head(chan))
            /\ chan' = Tail(chan)]_vars

\* two different events were sent, queued together, and both were received
C4_Witness ==
    /\ sentLog = << "Key1", "X" >>
    /\ recvLog = sentLog
    /\ chan = << >>


\* C5: block-until-key makes no progress while the channel is empty; it ends
\* either with an event received and VX set to its keypad value in 0..15, or,
\* the sender gone, with the process exiting; and with an event in the
\* channel it completes.
C5_BlockUntilKey ==
    /\ [][(execPc = "get_key" /\ chan = << >>) =>
            /\ intr' = intr
            /\ execPc' \in {"get_key", "exited"}]_vars
    /\ [][(execPc = "get_key" /\ execPc' # "get_key") =>
            \/ /\ chan # << >>
               /\ KEYMAP[Head(chan)] \in Nibble
               /\ intr' = [intr EXCEPT !.registers[inst[2]] = KEYMAP[Head(chan)]]
               /\ execPc' = "sleep"
            \/ /\ chan = << >>
               /\ ~txAlive
               /\ intr' = intr
               /\ execPc' = "exited"]_vars
    /\ (execPc = "get_key" /\ chan # << >>) ~> (execPc # "get_key")

\* FX0A has stored the keypad value of Key1 in V0 and execution went on
C5_Witness ==
    /\ rom = KeysRom
    /\ Opcode(inst) = "get_key"
    /\ execPc = "sleep"
    /\ recvLog = << "Key1" >>
    /\ intr.registers[0] = 1

\* C6: a key skip with no event in time leaves PC alone; with an event of
\* keypad value k, EX9E adds 2 to PC exactly when VX = k and EXA1 exactly
\* when VX # k; nothing else of the machine, and no register, changes.
C6_BoundedSkip ==
    [][(execPc = "skip_key" /\ execPc' # "skip_key") =>
        LET vx == intr.registers[inst[2]]
            pressed == Opcode(inst) = "skip_key_pressed"
        IN  /\ Opcode(inst) \in {"skip_key_pressed", "skip_key_not_pressed"}
            /\ execPc' = "sleep"
            /\ IF chan = << >>
               THEN intr' = intr
               ELSE LET k == KEYMAP[Head(chan)]
                        extra == IF (pressed /\ vx = k) \/ (~pressed /\ vx # k)
                                 THEN 2 ELSE 0
                    IN  intr' = [intr EXCEPT !.pc = @ + extra]]_vars

\* EX9E has received the event matching V0 and skipped EXA1
C6_Witness ==
    /\ rom = KeysRom
    /\ Opcode(inst) = "skip_key_pressed"
    /\ execPc = "sleep"
    /\ recvLog = << "Key1", "Key1" >>
    /\ intr.pc = 518

DefinedPattern(nib) ==
    \/ nib[1] \in {1, 2, 3, 4, 6, 7, 10, 11, 12, 13}
    \/ nib[1] = 0 /\ << nib[2], nib[3], nib[4] >> \in {<< 0, 14, 0 >>, << 0, 14, 14 >>}
    \/ nib[1] \in {5, 9} /\ nib[4] = 0
    \/ nib[1] = 8 /\ nib[4] \in {0, 1, 2, 3, 4, 5, 6, 7, 14}
    \/ nib[1] = 14 /\ << nib[3], nib[4] >> \in {<< 9, 14 >>, << 10, 1 >>}
    \/ nib[1] = 15 /\ << nib[3], nib[4] >> \in
          {<< 0, 7 >>, << 0, 10 >>, << 1, 5 >>, << 1, 8 >>, << 1, 14 >>,
           << 2, 9 >>, << 3, 3 >>, << 5, 5 >>, << 6, 5 >>}

\* C8: a fetched word matching no defined opcode shape exits the process with
\* the unknown-opcode error and nothing is executed after it; a word matching
\* a defined shape never raises that error.
C8_UnknownOpcodeFatal ==
    /\ [](/\ execPc \in {"sleep", "get_key", "skip_key"} => DefinedPattern(inst)
          /\ execPc = "exited" => (exitCause = "unknown_opcode" <=> ~DefinedPattern(inst))
          /\ exitCause # "none" <=> execPc = "exited")
    /\ [][exitCause = "none"]_vars

\* the word 8XY8 has stopped the machine
C8_Witness ==
    /\ inst = << 8, 1, 15, 8 >>
    /\ execPc = "exited"
    /\ exitCause = "unknown_opcode"
    /\ intr.pc = 514

\* C9: return on an empty stack exits the process and nothing is executed
\* after it; return on a non-empty stack never fails; the stack depth is
\* never negative.
C9_ReturnUnderflowFatal ==
    /\ [](Len(intr.stack) >= 0)
    /\ [][(execPc = "dispatch" /\ execPc' # "dispatch"
            /\ Opcode(inst) = "subroutine_return") =>
            IF intr.stack = << >>
            THEN execPc' = "exited" /\ exitCause' = "panic" /\ intr' = intr
            ELSE execPc' = "sleep" /\ exitCause' = "none"]_vars
    /\ [][exitCause = "none"]_vars

\* after two calls and two returns the third return found the stack empty
C9_Witness ==
    /\ rom = CallRom
    /\ Opcode(inst) = "subroutine_return"
    /\ intr.stack = << >>
    /\ intr.pc = 516
    /\ exitCause = "panic"

\* C10: call pushes the address after the call and sets PC to the 12-bit
\* address; return pops the latest pushed address into PC; so a return
\* resumes after the latest call not yet returned from and leaves the stack
\* as it was before that call.
C10_CallReturnLifo ==
    /\ [][(execPc = "dispatch" /\ execPc' = "sleep"
            /\ Opcode(inst) = "call_subroutine") =>
            /\ LET site == intr.pc - 2
               IN  intr'.stack = Append(intr.stack, site + 2)
            /\ intr'.pc = 256 * inst[2] + 16 * inst[3] + inst[4]]_vars
    /\ [][(execPc = "dispatch" /\ execPc' = "sleep"
            /\ Opcode(inst) = "subroutine_return") =>
            /\ intr'.pc = intr.stack[Len(intr.stack)]
            /\ intr'.stack = SubSeq(intr.stack, 1, Len(intr.stack) - 1)
            /\ callLog # << >>
            /\ intr'.pc = callLog[Len(callLog)].site + 2
            /\ intr'.stack = callLog[Len(callLog)].before]_vars

\* the inner call returned to 0x206 and the outer one to 0x202, the stack empty again
C10_Witness ==
    /\ rom = CallRom
    /\ Opcode(inst) = "subroutine_return"
    /\ execPc = "sleep"
    /\ intr.pc = 514
    /\ intr.stack = << >>
    /\ callLog = << >>

---------------------------------------------------------------------------
(* Claims on the arithmetic handlers *)

\* the operands of the latest dispatch, read before it
PreVX == Pre.registers[LastX]
PreVY == Pre.registers[LastY]
Carry == IF PreVX + PreVY > 255 THEN 1 ELSE 0

\* C13 as stated: after add (8XY4), for all register indices X and Y, VF is 1
\* if VX + VY exceeds 255 and 0 otherwise, VX holds (VX + VY) mod 256, and no
\* other register, I, PC, memory or stack entry changes.
C13_AddAllRegisters ==
    Dispatched("add") =>
        /\ intr.registers[15] = Carry
        /\ intr.registers[LastX] = (PreVX + PreVY) % 256
        /\ \A r \in 0..(REGISTER_COUNT - 1) \ {LastX, 15} : intr.registers[r] = Pre.registers[r]
        /\ intr.i = Pre.i /\ intr.pc = Pre.pc
        /\ intr.memory = Pre.memory /\ intr.stack = Pre.stack

\* C13 amended: after add (8XY4), VF is 1 if VX + VY exceeds 255 and 0
\* otherwise; when X is not F, VX holds (VX + VY) mod 256; when X is F the
\* carry is what VF holds; nothing else of the machine changes.
C13_AddCarry ==
    Dispatched("add") =>
        intr = IF LastX = 15
               THEN OnlyRegs(Pre, 15, Carry, Carry)
               ELSE OnlyRegs(Pre, LastX, (PreVX + PreVY) % 256, Carry)

\* add(V0, V1) on 250 and 10 left 4 in V0 and 1 in VF
C13_Witness ==
    /\ Dispatched("add")
    /\ LastX = 0 /\ LastY = 1
    /\ PreVX = 250 /\ PreVY = 10
    /\ intr.registers[0] = 4 /\ intr.registers[15] = 1

\* C14: after subtract, for all register indices and all 8-bit values, VF is
\* 1 if lhs > rhs strictly and 0 otherwise (0 on equal operands) and VX holds
\* (lhs - rhs) mod 256, with lhs = VX, rhs = VY for 8XY5 and lhs = VY,
\* rhs = VX for 8XY7.
C14_SubBorrow ==
    /\ Dispatched("sub_xy") =>
        /\ intr.registers[15] = (IF PreVX > PreVY THEN 1 ELSE 0)
        /\ intr.registers[LastX] = (PreVX - PreVY) % 256
    /\ Dispatched("sub_yx") =>
        /\ intr.registers[15] = (IF PreVY > PreVX THEN 1 ELSE 0)
        /\ intr.registers[LastX] = (PreVY - PreVX) % 256

\* C15 as stated: shift-right (8XY6) sets VF to bit 0 of VX's old value and VX
\* to old VX div 2; shift-left (8XYE) sets VF to bit 7 of VX's old value and
\* VX to (old VX * 2) mod 256; the Y nibble and VY have no effect.
C15_ShiftAllRegisters ==
    /\ Dispatched("shift_right") =>
        /\ intr.registers[15] = PreVX % 2
        /\ intr.registers[LastX] = PreVX \div 2
    /\ Dispatched("shift_left") =>
        /\ intr.registers[15] = PreVX \div 128
        /\ intr.registers[LastX] = (PreVX * 2) % 256

\* C15 amended: shift-right (8XY6) sets VF to bit 0 of VX's old value and
\* shift-left (8XYE) sets VF to bit 7 of it; when X is not F, VX becomes old VX
\* div 2, or (old VX * 2) mod 256; when X is F the shifted-out bit is what VF
\* holds.  Nothing else of the machine changes, so the resulting state is
\* the same for every Y nibble and every value of VY.
C15_Shift ==
    /\ Dispatched("shift_right") =>
        intr = IF LastX = 15
               THEN OnlyRegs(Pre, 15, PreVX % 2, PreVX % 2)
               ELSE OnlyRegs(Pre, LastX, PreVX \div 2, PreVX % 2)
    /\ Dispatched("shift_left") =>
        intr = IF LastX = 15
               THEN OnlyRegs(Pre, 15, PreVX \div 128, PreVX \div 128)
               ELSE OnlyRegs(Pre, LastX, (PreVX * 2) % 256, PreVX \div 128)

\* shift-left of V0 = 128, with the Y nibble naming V1 = 255, left 0 in V0 and 1 in VF
C15_Witness ==
    /\ Dispatched("shift_left")
    /\ LastX = 0 /\ LastY = 1
    /\ PreVX = 128 /\ PreVY = 255
    /\ intr.registers[0] = 0 /\ intr.registers[15] = 1

---------------------------------------------------------------------------
(* Claims on the index register handlers *)

\* C16: after add-to-index (FX1E), I is old I + VX as a 16-bit value, not
\* masked to 12 bits, and VF is 1 if the new I exceeds 0x1000 and 0 otherwise,
\* for every prior value of VF and every I that repeated add-to-index reaches.
C16_AddToIndexFlag ==
    (trail # << >> /\ Opcode(Last.nib) = "add_to_index") =>
        /\ ~Last.fatal
        /\ intr.i = Pre.i + PreVX
        /\ intr.registers[15] = (IF intr.i > 4096 THEN 1 ELSE 0)

\* C18: font-character (FX29) never fails and, for every 8-bit value of VX,
\* sets I to font-base + 5 * (low nibble of VX), the first byte of one of the
\* 16 glyphs in 0x50..0x9F.
C18_FontCharacterLowNibble ==
    (trail # << >> /\ Opcode(Last.nib) = "font_character") =>
        /\ ~Last.fatal
        /\ intr.i = FONT_START + 5 * (PreVX % 16)
        /\ intr.i >= FONT_START /\ intr.i + 4 <= FONT_END

---------------------------------------------------------------------------
(* Claims on the memory transfer handlers *)

\* the memory m with the bytes lo..hi set to 0
RECURSIVE Blank(_, _, _)
Blank(m, lo, hi) == IF lo > hi THEN m ELSE Blank([m EXCEPT ![lo] = 0], lo + 1, hi)

\* the memories m1 and m2 hold the same byte at every address outside lo..hi
SameOutside(m1, m2, lo, hi) == Blank(m1, lo, hi) = Blank(m2, lo, hi)

\* the machine after the n-th dispatch of the trail
After(n) == IF n = Len(trail) THEN intr ELSE trail[n + 1].pre

\* the n-th dispatch of the trail took the arm op, on register nibble x
Took(n, op, x) == Opcode(trail[n].nib) = op /\ trail[n].nib[2] = x

\* C17: for every x and every I with I + x < 4096, store-to-memory(x) copies
\* V0..Vx into memory[I .. I+x] and changes neither I, nor a register, nor any
\* other memory byte; a later load-from-memory(x) with the same I and that
\* memory sets V0..Vx back to the stored values, whatever the registers held
\* in between, and leaves the registers above x unchanged.
C17_StoreLoadRoundTrip ==
    /\ \A x \in Nibble :
        ( /\ trail # << >>
          /\ Took(Len(trail), "store_to_memory", x)
          /\ Pre.i + x < MEMORY_SIZE ) =>
            /\ ~Last.fatal
            /\ intr.i = Pre.i
            /\ intr.registers = Pre.registers
            /\ \A k \in 0..x : intr.memory[Pre.i + k] = Pre.registers[k]
            /\ SameOutside(intr.memory, Pre.memory, Pre.i, Pre.i + x)
    /\ \A n \in 1..Len(trail), x \in Nibble :
        ( /\ n < Len(trail)
          /\ Took(n, "store_to_memory", x) /\ ~trail[n].fatal
          /\ Took(Len(trail), "load_from_memory", x)
          /\ Pre.i = trail[n].pre.i
          /\ Pre.memory = After(n).memory ) =>
            /\ ~Last.fatal
            /\ \A r \in 0..(REGISTER_COUNT - 1) :
                intr.registers[r] =
                    IF r <= x THEN trail[n].pre.registers[r] ELSE Pre.registers[r]

\* store-to-memory(3), V3 zeroed, load-from-memory(3): V3 holds 4 again
C17_Witness ==
    /\ Len(trail) = 3
    /\ Took(1, "store_to_memory", 3) /\ trail[1].pre.registers[3] = 4
    /\ Took(2, "set_register", 3) /\ trail[3].pre.registers[3] = 0
    /\ Took(3, "load_from_memory", 3) /\ ~trail[3].fatal
    /\ intr.registers[3] = 4

\* C19: for every VX in 0..255, BCD-conversion (FX33) with I + 2 inside memory
\* writes the hundreds digit to memory[I], the tens digit to memory[I+1] and
\* the ones digit to memory[I+2], each in 0..9 and together making VX, with
\* digit(i, n) = (n div 10^i) mod 10; no register, I, PC or other memory byte
\* changes.
C19_BcdDigits ==
    (trail # << >> /\ Opcode(Last.nib) = "conversion" /\ Pre.i + 2 < MEMORY_SIZE) =>
        /\ ~Last.fatal
        /\ intr.memory[Pre.i] = PreVX \div 100
        /\ intr.memory[Pre.i + 1] = (PreVX \div 10) % 10
        /\ intr.memory[Pre.i + 2] = PreVX % 10
        /\ \A k \in 0..2 : intr.memory[Pre.i + k] \in 0..9 /\ intr.memory[Pre.i + k] = digit(2 - k, PreVX)
        /\ 100 * intr.memory[Pre.i] + 10 * intr.memory[Pre.i + 1] + intr.memory[Pre.i + 2] = PreVX
        /\ SameOutside(intr.memory, Pre.memory, Pre.i, Pre.i + 2)
        /\ intr.registers = Pre.registers
        /\ intr.i = Pre.i /\ intr.pc = Pre.pc

\* conversion of V0 = 123 wrote 1, 2, 3 at I = 0x300
C19_Witness ==
    /\ Dispatched("conversion")
    /\ PreVX = 123 /\ Pre.i = 768
    /\ intr.memory[768] = 1 /\ intr.memory[769] = 2 /\ intr.memory[770] = 3

---------------------------------------------------------------------------
(* Claims on the draw handler *)

\* the start coordinates and height of the n-th dispatch, a draw
X0(n) == trail[n].pre.registers[trail[n].nib[2]] % WIDTH
Y0(n) == trail[n].pre.registers[trail[n].nib[3]] % HEIGHT
Rows(n) == trail[n].nib[4]

\* the sprite bit of row r, column c of the n-th dispatch: bit 7 - c of memory[I + r]
SpriteBit(n, r, c) == set_bit(7 - c, trail[n].pre.memory[trail[n].pre.i + r])

\* the positions (row r, column c) of the sprite of the n-th dispatch that fall inside the grid
InGrid(n) ==
    { rc \in (0..(Rows(n) - 1)) \X (0..7) :
        X0(n) + rc[2] <= WIDTH - 1 /\ Y0(n) + rc[1] <= HEIGHT - 1 }

\* the pixel under sprite position rc of the n-th dispatch
Target(n, rc) == (Y0(n) + rc[1]) * WIDTH + X0(n) + rc[2]

\* the pixels under the set sprite bits of the n-th dispatch
SetTargets(n) == { Target(n, rc) : rc \in { q \in InGrid(n) : SpriteBit(n, q[1], q[2]) } }

IsDraw(n) == Opcode(trail[n].nib) = "draw_sprite" /\ ~trail[n].fatal

\* the n-th and the next dispatch draw the same sprite at the same position
SameDrawTwice(n) ==
    /\ IsDraw(n) /\ IsDraw(n + 1)
    /\ X0(n + 1) = X0(n) /\ Y0(n + 1) = Y0(n) /\ Rows(n + 1) = Rows(n)
    /\ trail[n + 1].pre.i = trail[n].pre.i

\* draw composes by XOR: a set sprite bit inside the grid toggles its pixel,
\* an unset bit leaves it, and VF is 1 after the draw if a pixel that was on
\* was turned off and 0 otherwise, whatever VF held
DrawToggles ==
    (trail # << >> /\ IsDraw(Len(trail))) =>
        LET n == Len(trail)
        IN  /\ \A rc \in InGrid(n) :
                (Target(n, rc) \in intr.display.scratch_pixels)
                    = ((Target(n, rc) \in Pre.display.scratch_pixels) # SpriteBit(n, rc[1], rc[2]))
            /\ intr.registers[15] =
                (IF SetTargets(n) \cap Pre.display.scratch_pixels # {} THEN 1 ELSE 0)

\* C11 as stated: draw composes by XOR, with VF = 1 exactly when a pixel that
\* was on is turned off; drawing the same sprite again at the same position
\* restores the grid, and the second draw reports VF = 1 whenever the sprite
\* has a set bit inside the grid.
C11_DrawTwiceCollides ==
    /\ DrawToggles
    /\ \A n \in 1..(Len(trail) - 1) :
        SameDrawTwice(n) =>
            /\ After(n + 1).display.scratch_pixels = trail[n].pre.display.scratch_pixels
            /\ After(n + 1).registers[15] = (IF SetTargets(n) # {} THEN 1 ELSE 0)

\* C11 amended: draw composes by XOR, with VF = 1 exactly when a pixel that
\* was on is turned off; drawing the same sprite again at the same position
\* restores the grid, and the second draw reports VF = 1 whenever the first
\* draw turned a pixel on, that is whenever the sprite has a set bit inside
\* the grid over a pixel that was off before the first draw.
C11_DrawXor ==
    /\ DrawToggles
    /\ \A n \in 1..(Len(trail) - 1) :
        SameDrawTwice(n) =>
            /\ After(n + 1).display.scratch_pixels = trail[n].pre.display.scratch_pixels
            /\ After(n + 1).registers[15] =
                (IF SetTargets(n) \ trail[n].pre.display.scratch_pixels # {} THEN 1 ELSE 0)

\* the row of 8 set bits drawn twice at (0, 0): the 8 pixels are off again and VF is 1
C11_Witness ==
    /\ Len(trail) = 2
    /\ IsDraw(1) /\ IsDraw(2)
    /\ X0(1) = 0 /\ Y0(1) = 0 /\ Rows(1) = 1 /\ trail[1].pre.i = MEMORY_OFFSET
    /\ X0(2) = 0 /\ Y0(2) = 0 /\ Rows(2) = 1 /\ trail[2].pre.i = MEMORY_OFFSET
    /\ trail[2].pre.display.scratch_pixels = 0..7
    /\ intr.display.scratch_pixels = {}
    /\ intr.registers[15] = 1

\* the pixels whose state the latest dispatch changed
Changed ==
    (intr.display.scratch_pixels \ Pre.display.scratch_pixels)
        \cup (Pre.display.scratch_pixels \ intr.display.scratch_pixels)

\* C12: draw(vx, vy, n) starts at (VX mod 64, VY mod 32) and changes only
\* pixels in columns x0..min(x0+7, 63) and rows y0..min(y0+n-1, 31): bits and
\* rows past the right or bottom edge are dropped, not wrapped, and every
\* pixel outside the rectangle is unchanged; the pixel changed at row y0 + r,
\* column x0 + c is the one under bit 7 - c of memory[I + r].
C12_DrawClipped ==
    (trail # << >> /\ IsDraw(Len(trail))) =>
        LET n == Len(trail)
            right == IF X0(n) + 7 <= WIDTH - 1 THEN X0(n) + 7 ELSE WIDTH - 1
            bottom == IF Y0(n) + Rows(n) - 1 <= HEIGHT - 1 THEN Y0(n) + Rows(n) - 1 ELSE HEIGHT - 1
        IN  /\ \A p \in Changed :
                /\ p % WIDTH \in X0(n)..right
                /\ p \div WIDTH \in Y0(n)..bottom
                /\ SpriteBit(n, (p \div WIDTH) - Y0(n), (p % WIDTH) - X0(n))
            /\ \A y \in Y0(n)..bottom, x \in X0(n)..right :
                SpriteBit(n, y - Y0(n), x - X0(n)) => (y * WIDTH + x) \in Changed

\* the glyph of 0 drawn from (60, 30): only its 4 left columns and 2 top rows
\* fit, and the pixels changed are those of F0 and 90 in columns 60..63
C12_Witness ==
    /\ Len(trail) = 1 /\ IsDraw(1)
    /\ X0(1) = 60 /\ Y0(1) = 30 /\ Rows(1) = 5 /\ Pre.i = FONT_START
    /\ Changed = { 30 * WIDTH + 60, 30 * WIDTH + 61, 30 * WIDTH + 62, 30 * WIDTH + 63,
                   31 * WIDTH + 60, 31 * WIDTH + 63 }

---------------------------------------------------------------------------
(* Claims on the decoder *)

\* C20: for every 16-bit value v, decoding yields exactly four nibbles, each in
\* 0..15, ordered from most to least significant, and recombining them as
\* the two bytes (n0*16 + n1, n2*16 + n3) read big-endian gives back v.
C20_DecodeRoundTrip ==
    trail # << >> =>
        LET v == trail[1].word
        IN  /\ Len(inst) = 4
            /\ \A k \in 1..4 : inst[k] \in Nibble
            /\ inst[1] = v \div 4096
            /\ inst[2] = (v \div 256) % 16
            /\ inst[3] = (v \div 16) % 16
            /\ inst[4] = v % 16
            /\ (inst[1] * 16 + inst[2]) * 256 + (inst[3] * 16 + inst[4]) = v
            /\ recombine(inst[1], inst[2]) * 256 + recombine(inst[3], inst[4]) = v

\* 0b0010_1110 (46) decoded to the nibbles 0, 0, 2, 14
C20_Witness ==
    /\ trail # << >>
    /\ trail[1].word = 46
    /\ inst = << 0, 0, 2, 14 >>

\* C21: a load_rom of a ROM that fits leaves I = 0, PC = 0x200, the stack
\* empty, all 16 registers 0, the timers new, and memory zero everywhere
\* except the font at [0x50, 0x9F] and the ROM at [0x200, 0x200 + len),
\* whatever the interpreter held before; the display is left as it was
C21_LoadRomResets ==
    (trail # << >> /\ ~Last.fatal) =>
        /\ intr.i = 0
        /\ intr.pc = 512
        /\ intr.stack = << >>
        /\ \A r \in 0..15 : intr.registers[r] = 0
        /\ \A a \in 0..4095 :
            intr.memory[a] =
                IF a >= 80 /\ a <= 159 THEN FONT[a - 79]
                ELSE IF a >= 512 /\ a < 512 + Len(Last.rom) THEN Last.rom[a - 511]
                ELSE 0
        /\ timers = NewTimers
        /\ intr.display = Pre.display

\* a short ROM was loaded over a longer one that filled the program area
C21_Witness ==
    /\ Len(trail) = 2
    /\ trail[1].rom = FullRom
    /\ trail[2].rom = JumpRom
    /\ Pre.memory[4095] = 255
    /\ intr.memory[4095] = 0
    /\ trail[1].pre.stack # << >>

\* C22: in every state a program reaches after load_rom, memory bytes
\* 0x50..0x9F hold the font sprite set
C22_FontImmutable ==
    \A a \in 80..159 : intr.memory[a] = FONT[a - 79]

\* the arm the execute thread has just run, at the instruction boundary after it
Ran(op) == execPc = "sleep" /\ Opcode(inst) = op

\* C25: every step leaves the presentation buffer equal to the scratch
\* grid; only the draw and clear arms change either buffer; clear leaves
\* every pixel off in both buffers and every register, VF included, as it
\* was
C25_ArmBuffers ==
    /\ intr'.display.pixels = intr'.display.scratch_pixels
    /\ intr'.display # intr.display =>
        (execPc = "dispatch" /\ Opcode(inst) \in {"draw_sprite", "clear"})
    /\ (execPc = "dispatch" /\ execPc' = "sleep" /\ Opcode(inst) = "clear") =>
        /\ intr'.display.scratch_pixels = {}
        /\ intr'.display.pixels = {}
        /\ intr'.registers = intr.registers

C25_DoubleBuffering == [][C25_ArmBuffers]_vars

\* the clear of DisplayRom has run on a screen the first draw lit, with VF = 7
C25_Witness ==
    /\ rom = DisplayRom
    /\ Ran("clear")
    /\ intr.pc = 512 + 22
    /\ intr.registers[15] = 7
    /\ intr.display = NewDisplay

\* the latest dispatch, applied to the machine before it with VF replaced by
\* f, ends in the state the machine is in
SameFromFlag(f) ==
    LET res == execute_arm([Pre EXCEPT !.registers[15] = f], Last.nib, 0, FALSE)
    IN  ~res.fatal /\ res.intr = intr

\* the latest dispatch names the flag register as an operand: X of an
\* arithmetic, shift or draw instruction, or Y of an addition, subtraction
\* or draw (the shifts ignore Y)
NamesFlag ==
    \/ LastX = 15
    \/ LastY = 15 /\ Opcode(Last.nib) \notin {"shift_right", "shift_left"}

\* C23 as stated: for every choice of register nibbles, add, subtract, the
\* shifts and draw take machines that differ only in VF to the same state
C23_FlagNeverOperand ==
    (trail # << >> /\ ~Last.fatal) => \A f \in FlagValues : SameFromFlag(f)

\* C23: add, subtract, the shifts and draw, when no operand nibble names
\* register F, take machines that differ only in VF to the same state
C23_FlagOnlyOutput ==
    (trail # << >> /\ ~Last.fatal /\ ~NamesFlag) => \A f \in FlagValues : SameFromFlag(f)

\* DXY2 with X = 0, Y = 1 collided from VF = 3 and set VF to 1
C23_Witness ==
    /\ Dispatched("draw_sprite")
    /\ LastX = 0
    /\ LastY = 1
    /\ Pre.registers[15] = 3
    /\ Pre.registers[0] = 5
    /\ Pre.registers[1] = 10
    /\ Pre.display.pixels # {}
    /\ intr.registers[15] = 1
    /\ SameFromFlag(0)

\* a step of the timer thread in which update() runs, a step of the event
\* loop that sends a key, and any step of the calling thread, the event loop
\* or the timer thread
TickStep == timerPc = "waiting" /\ timerPc' = "sleep"
SendStep == sentLog' # sentLog
ContextStep ==
    \/ callerPc' # callerPc
    \/ timerPc' # timerPc
    \/ sentLog' # sentLog
    \/ txAlive' # txAlive

\* C24: a timer tick changes only the delay and sound counters, a key send
\* only the channel contents, and no step of the calling thread, the event
\* loop or the timer thread changes memory, registers, I, PC, stack or display
C24_Frame ==
    /\ TickStep =>
        /\ timers' = update(timers)
        /\ UNCHANGED <<intr, inst, chan, txAlive, timerReaders, intrLock, callerPc, execPc,
                       exitCause, configVars>>
    /\ SendStep =>
        /\ \E key \in PressedKeys : chan' = Append(chan, key)
        /\ UNCHANGED <<intr, inst, timers, timerReaders, txAlive, intrLock, callerPc, execPc,
                       timerPc, exitCause, configVars>>
    /\ ContextStep => intr' = intr

C24_ExecuteOwnsMachine == [][C24_Frame]_vars

\* a tick took the delay timer from 2 to 1 and a key was sent while the
\* program was past its first instructions
C24_Witness ==
    /\ rom = TimerOnceRom
    /\ timerPc = "sleep"
    /\ ticks.delay = 1
    /\ timers.delay = 1
    /\ sentLog # << >>
    /\ chan # << >>
    /\ intr.registers[0] = 2
    /\ intr.pc > 516

\* the execute thread finishes the instruction inst, fetched from intr.pc - 2
Completes == execPc \in {"dispatch", "get_key", "skip_key"} /\ execPc' = "sleep"

\* the skip condition of inst in the state the handler sees: the register
\* skips compare VX with NN or VY, the key skips compare VX with the key of
\* the event they receive, and skip nothing when none arrives in time
SkipHolds ==
    LET op == Opcode(inst)
        vx == intr.registers[inst[2]]
        vy == intr.registers[inst[3]]
        nn == inst[3] * 16 + inst[4]
    IN  CASE op = "skip_vx_eq" -> vx = nn
          [] op = "skip_vx_ne" -> vx # nn
          [] op = "skip_vxy_eq" -> vx = vy
          [] op = "skip_vxy_ne" -> vx # vy
          [] op = "skip_key_pressed" -> chan # << >> /\ vx = KEYMAP[Head(chan)]
          [] op = "skip_key_not_pressed" -> chan # << >> /\ vx # KEYMAP[Head(chan)]
          [] OTHER -> FALSE

\* C26: fetch moves PC to the instruction's address + 2; an instruction
\* other than jump, call, return and jump-with-offset leaves it there, or
\* at + 4 exactly when it is a skip whose condition holds; jump-with-offset
\* sets PC to NNN + V0; no other step changes PC
C26_Stepping ==
    LET op == Opcode(inst)
        addr == intr.pc - 2
        nnn == inst[2] * 256 + inst[3] * 16 + inst[4]
    IN  /\ (Completes /\ op = "jump_with_offset") => intr'.pc = nnn + intr.registers[0]
        /\ (Completes /\ op \notin {"jump", "call_subroutine", "subroutine_return",
                                      "jump_with_offset"}) =>
                intr'.pc = addr + (IF SkipHolds THEN 4 ELSE 2)
        /\ ~Completes =>
                \/ intr'.pc = intr.pc
                \/ execPc = "fetch" /\ intr'.pc = intr.pc + 2

C26_ProgramCounter == [][C26_Stepping]_vars

\* SkipRom ran to its end: every register skip went both ways and BNNN
\* landed on 0x215 + 5
C26_Witness ==
    /\ rom = SkipRom
    /\ Ran("jump_with_offset")
    /\ intr.registers[0] = 5
    /\ intr.pc = 538

\* C27: whichever thread gets the interpreter lock first, the calling thread
\* gets the timers handle, starts the timer thread and enters the event
\* loop, unless the process exits first
C27_StartupCompletes ==
    <>(exitCause # "none" \/ (callerPc \in {"ui", "quit"} /\ timerPc # "unspawned"))

\* the execute thread and the timer thread each wait for the timers lock on
\* the other: the execute thread holds a read guard and asks for a second
\* one, which the queued write request of the timer thread keeps back, and
\* that write request waits for the read guard to be dropped
TimersDeadlock ==
    /\ Running
    /\ execPc = "trace2"
    /\ ~CanRead
    /\ timerPc = "waiting"
    /\ timerReaders > 0

\* C28: the execute thread holds no guard on the timers when it requests
\* one, when it sleeps and when it waits for a key, so it and the timer
\* thread never block each other, at trace level included
C28_GuardsNotNested ==
    /\ execPc \in {"trace1", "trace2", "dispatch", "sleep", "get_key", "skip_key"} =>
            timerReaders = 0
    /\ ~TimersDeadlock

====
